---- MODULE Spec2Model ----
(***************************************************************************)
(* Model of the proxy worker of aslon1213/proxier, cmd/server/main.go:     *)
(* the handler PerformProxyJob, the worker goroutine PerformRequest, the   *)
(* context deadline timer, the buffered response channel and the client    *)
(* pool.  One handler invocation per job; jobs are indexed by Jobs.        *)
(***************************************************************************)
EXTENDS Integers, Sequences, FiniteSets, TLC

(***************************************************************************)
(* int64 arithmetic of time.Duration (main.go:108).  TLC's integers are    *)
(* 32 bits wide, so a 64-bit word is kept as NumLimbs little-endian limbs  *)
(* of 15 bits; the top limb keeps only its low 4 bits (4*15 + 4 = 64), so  *)
(* every operation below is arithmetic modulo 2^64, as Go computes it.     *)
(***************************************************************************)
Base == 32768

NumLimbs == 5

TopMod == 16

SignLimb == 8

Wrap64(x) == [x EXCEPT ![NumLimbs] = @ % TopMod]

\* The 64-bit word of a natural number below 2^31.
NatWord(n) == <<n % Base, (n \div Base) % Base, n \div (Base * Base), 0, 0>>

RECURSIVE MulLimb(_, _, _, _)
\* Limbs i.. of x * c + carry, for one limb c.
MulLimb(x, c, i, carry) ==
    IF i > NumLimbs THEN <<>>
    ELSE LET p == x[i] * c + carry
         IN  <<p % Base>> \o MulLimb(x, c, i + 1, p \div Base)

RECURSIVE AddLimb(_, _, _, _)
AddLimb(x, y, i, carry) ==
    IF i > NumLimbs THEN <<>>
    ELSE LET s == x[i] + y[i] + carry
         IN  <<s % Base>> \o AddLimb(x, y, i + 1, s \div Base)

Add64(x, y) == Wrap64(AddLimb(x, y, 1, 0))

\* x * Base^k, the limbs shifted out at the top being lost.
ShiftLimbs(x, k) == [i \in 1..NumLimbs |-> IF i <= k THEN 0 ELSE x[i - k]]

RECURSIVE MulFrom(_, _, _)
MulFrom(x, y, i) ==
    IF i > NumLimbs THEN NatWord(0)
    ELSE Add64(Wrap64(ShiftLimbs(MulLimb(x, y[i], 1, 0), i - 1)), MulFrom(x, y, i + 1))

\* The product of two int64 values, wrapping modulo 2^64.
Mul64(x, y) == MulFrom(x, y, 1)

\* Two's complement negation.
Neg64(x) ==
    Add64([i \in 1..NumLimbs |->
              IF i = NumLimbs THEN (TopMod - 1) - x[i] ELSE (Base - 1) - x[i]],
          NatWord(1))

\* The int64 of an integer of magnitude below 2^31.
IntWord(n) == IF n >= 0 THEN NatWord(n) ELSE Neg64(NatWord(-n))

\* Bit 63 is the sign.
IsNeg64(x) == x[NumLimbs] >= SignLimb

RECURSIVE GeqFrom(_, _, _)
GeqFrom(x, y, i) ==
    IF i = 0 THEN TRUE
    ELSE IF x[i] # y[i] THEN x[i] > y[i]
    ELSE GeqFrom(x, y, i - 1)

\* x >= y for two non-negative int64 values.
Geq64(x, y) == GeqFrom(x, y, NumLimbs)

\* time.Second, in nanoseconds.
Second == 1000000000

\* 30*time.Duration(job.Timeout)*time.Second, evaluated left to right.
CtxDuration(timeout) == Mul64(Mul64(NatWord(30), IntWord(timeout)), NatWord(Second))

(***************************************************************************)
(* Inputs and bounds.                                                      *)
(***************************************************************************)
Jobs == {"j1", "j2"}

Clients == {"c1", "c2"}

\* job.Method as the caller supplies it; PATCH stands for every other string.
Methods == {"GET", "POST", "PUT", "DELETE", "PATCH"}

\* job.Timeout as the caller supplies it (0: absent or zero).
\* 30 * 307445735 * 10^9 exceeds 2^63 - 1 and wraps to a negative duration;
\* 30 * 614891470 * 10^9 exceeds 2^64 and wraps to 26290448384 ns.
Timeouts == {-1, 0, 1, 307445735, 614891470}

\* What agent.Bytes() can return.
Statuses == {200, 400, 408, 502}

Bodies == {"", "ok"}

ErrNames == {"dns", "refused"}

MaxErrs == 2

ErrLists == UNION {[1..n -> ErrNames] : n \in 0..MaxErrs}

CallOutcomes == [StatusCode : Statuses, Body : Bodies, Errs : ErrLists]

\* The clock counts seconds and advances TickSeconds at a time, up to MaxTime
\* (the largest deadline of Timeouts, 30 * 30 seconds, is reached).
TickSeconds == 150

MaxTime == 900

\* job.Headers, job.Cookies and job.Body as the caller supplies them: a map is
\* a function from its keys, << >> is the empty map.
NoContent == [Headers |-> << >>, Cookies |-> << >>, Body |-> ""]

Contents ==
    {NoContent,
     [Headers |-> [k \in {"X-A"} |-> "1"], Cookies |-> << >>, Body |-> "payload"],
     [Headers |-> [k \in {"X-A", "X-B"} |-> IF k = "X-A" THEN "2" ELSE "3"],
      Cookies |-> [k \in {"sid"} |-> "s1"], Body |-> ""],
     [Headers |-> << >>, Cookies |-> [k \in {"sid", "lang"} |-> "s2"], Body |-> "other"]}

NilBody == "nil"

NoJob == [Method |-> "", Timeout |-> 0, Headers |-> << >>, Cookies |-> << >>, Body |-> ""]

\* The request of an agent nothing has been applied to.
NoRequest == [Method |-> "", Headers |-> << >>, Cookies |-> << >>, Body |-> "",
              HasBody |-> FALSE]

NoClient == "none"

NoResponse == [StatusCode |-> 0, Body |-> NilBody, Errs |-> <<>>]

NoResult == [code |-> 0, json |-> [none |-> TRUE]]

\* response_chan := make(chan ProxyResponse, 1)
ChanCap == 1

VARIABLES
    now,        \* the clock, in seconds
    admitted,   \* the jobs that are submitted in this run
    world,      \* the inputs this run draws from: what callers send, what origins answer
    pool,       \* fiber's client pool: how many times each client lies in it
    allocated,  \* the clients the pool has created so far
    hpc,        \* PerformProxyJob: where each handler is
    job,        \* the parsed job (Timeout after the default is applied)
    client,     \* the handler's client
    ctxErr,     \* ctx: "unset", "none" (live), "deadline", "canceled"
    ctxAt,      \* ctx: the second it was created
    ctxDur,     \* ctx: the timeout it was created with (int64 nanoseconds)
    chan,       \* response_chan: the buffered values
    recv,       \* the value the select received
    result,     \* what the handler returned
    req,        \* the request of the job's agent
    wpc,        \* PerformRequest: where each worker is
    callOut,    \* what agent.Bytes() returned
    hist        \* history of each job, for the properties only

vars == <<now, admitted, world, pool, allocated, hpc, job, client, ctxErr, ctxAt,
          ctxDur, chan, recv, result, req, wpc, callOut, hist>>

handlerVars == <<hpc, job, client, ctxErr, ctxAt, ctxDur, recv, result>>

workerVars == <<req, wpc, callOut>>

NoHist == [supplied |-> 0, order |-> "none", returns |-> 0, releases |-> 0,
           acquires |-> 0, starts |-> 0, calls |-> 0, sends |-> 0, retAt |-> 0,
           inTime |-> FALSE, late |-> FALSE, midCall |-> FALSE]

InitCommon ==
    /\ now = 0
    /\ pool = [c \in Clients |-> 0]
    /\ allocated = {}
    /\ hpc = [j \in Jobs |-> "idle"]
    /\ job = [j \in Jobs |-> NoJob]
    /\ client = [j \in Jobs |-> NoClient]
    /\ ctxErr = [j \in Jobs |-> "unset"]
    /\ ctxAt = [j \in Jobs |-> 0]
    /\ ctxDur = [j \in Jobs |-> NatWord(0)]
    /\ chan = [j \in Jobs |-> <<>>]
    /\ recv = [j \in Jobs |-> NoResponse]
    /\ result = [j \in Jobs |-> NoResult]
    /\ req = [j \in Jobs |-> NoRequest]
    /\ wpc = [j \in Jobs |-> "none"]
    /\ callOut = [j \in Jobs |-> NoResponse]
    /\ hist = [j \in Jobs |-> NoHist]

\* One request is submitted; every method, timeout and call outcome occurs.
Init ==
    /\ InitCommon
    /\ admitted = {"j1"}
    /\ world = [methods |-> Methods, timeouts |-> Timeouts,
                outcomes |-> CallOutcomes, contents |-> {NoContent},
                horizon |-> MaxTime]

\* One request is submitted, with every method and timeout; the origin answers
\* 200, or the call fails, or the call never returns.
InitFair ==
    /\ InitCommon
    /\ admitted = {"j1"}
    /\ world = [methods |-> Methods, timeouts |-> Timeouts,
                outcomes |-> {o \in CallOutcomes :
                                 o.StatusCode = 200 /\ o.Body = "ok" /\ Len(o.Errs) <= 1},
                contents |-> {NoContent}, horizon |-> MaxTime]

\* One request is submitted, with every shape of headers, cookies and body;
\* the origin answers 200 or the call fails.
InitBuild ==
    /\ InitCommon
    /\ admitted = {"j1"}
    /\ world = [methods |-> {"GET", "POST", "PATCH"}, timeouts |-> {1},
                outcomes |-> {o \in CallOutcomes :
                                 o.StatusCode = 200 /\ o.Body = "ok" /\ Len(o.Errs) <= 1},
                contents |-> Contents, horizon |-> MaxTime]

\* Two requests are submitted and run concurrently; they differ in what they
\* carry and in what their origins answer.  The run is observed for one tick,
\* which is past the deadline of both.
InitPair ==
    /\ InitCommon
    /\ admitted = Jobs
    /\ world = [methods |-> {"GET", "PATCH"}, timeouts |-> {1},
                outcomes |-> {o \in CallOutcomes :
                                 o.StatusCode = 200 /\ o.Body = "ok" /\ Len(o.Errs) <= 1},
                contents |-> {b \in Contents : b.Body # ""},
                horizon |-> TickSeconds]

(***************************************************************************)
(* Pure parts of the handler and the worker.                               *)
(***************************************************************************)
\* if job.Timeout == 0 { job.Timeout = 30 }
EffectiveTimeout(t) == IF t = 0 THEN 30 ELSE t

\* Mutant: the switch has a case for PATCH as well.
ValidMethodWithPatch(m) == m \in {"GET", "POST", "PUT", "DELETE", "PATCH"}

\* The cases of switch job.Method that build an agent.
ValidMethod(m) == m \in {"GET", "POST", "PUT", "DELETE"}

\* context.WithTimeout cancels at once when the deadline is not in the future.
ExpiredAtCreation(d) == IsNeg64(d) \/ d = NatWord(0)

\* The timeout of the context of every job.Timeout that can reach line 108.
TimeoutNs == [t \in {EffectiveTimeout(s) : s \in Timeouts} |-> CtxDuration(t)]

\* e seconds, as a time.Duration.
ElapsedNs == [e \in 0..MaxTime |-> Mul64(NatWord(e), NatWord(Second))]

\* Mutant: the context is created without a deadline, its timer is never due.
TimerDueNever(at, d, t) == FALSE

\* The timer of a context created at second `at` with timeout d is due at second t.
TimerDue(at, d, t) == Geq64(ElapsedNs[t - at], d)

\* What PerformRequest sends for the values agent.Bytes() returned.
WorkerResponse(out) ==
    IF Len(out.Errs) > 0
    THEN [StatusCode |-> 0, Body |-> NilBody, Errs |-> out.Errs]
    ELSE [StatusCode |-> out.StatusCode, Body |-> out.Body, Errs |-> out.Errs]

BadBodyResult == [code |-> 400, json |-> [error |-> "Invalid request body"]]

BadMethodResult == [code |-> 400, json |-> [error |-> "Invalid HTTP method"]]

\* Mutant: the timeout return answers in the shape of a completed call.
TimeoutResultAsResponse ==
    [code |-> 408, json |-> [status_code |-> 408, body |-> "", errs |-> <<>>]]

TimeoutResult == [code |-> 408, json |-> [error |-> "Request timed out"]]

\* Mutant: the failure branch reports the status and the body it received too.
ReduceKeepsStatus(response) ==
    IF Len(response.Errs) > 0
    THEN [code |-> 502,
          json |-> [status_code |-> response.StatusCode,
                    body |-> response.Body,
                    errs |-> Append(response.Errs, "request timed out")]]
    ELSE [code |-> response.StatusCode,
          json |-> [status_code |-> response.StatusCode,
                    body |-> response.Body,
                    errs |-> response.Errs]]

\* The response case of the select: what the handler returns for a received value.
Reduce(response) ==
    IF Len(response.Errs) > 0
    THEN [code |-> 502, json |-> [errs |-> Append(response.Errs, "request timed out")]]
    ELSE [code |-> response.StatusCode,
          json |-> [status_code |-> response.StatusCode,
                    body |-> response.Body,
                    errs |-> response.Errs]]

\* client.Get(url), client.Post(url), ...: an agent whose request has the
\* method and nothing else.
NewAgent(m) == [NoRequest EXCEPT !.Method = m]

\* Header.Set(key, value) for every pair of a map, in any order: the keys of
\* a map are distinct, so the order does not show.
SetAll(old, new) ==
    [k \in DOMAIN old \cup DOMAIN new |-> IF k \in DOMAIN new THEN new[k] ELSE old[k]]

\* Mutant: the body is attached without the test of line 53.
ApplyJobAlwaysBody(r, jb) ==
    [r EXCEPT !.Headers = SetAll(@, jb.Headers),
              !.Cookies = SetAll(@, jb.Cookies),
              !.Body = jb.Body,
              !.HasBody = TRUE]

\* The request after lines 46-55 for job jb.
ApplyJob(r, jb) ==
    [r EXCEPT !.Headers = SetAll(@, jb.Headers),
              !.Cookies = SetAll(@, jb.Cookies),
              !.Body = IF jb.Body # "" THEN jb.Body ELSE @,
              !.HasBody = IF jb.Body # "" THEN TRUE ELSE @]

\* clientPool.Get(): a pooled client, or a new one when the pool is empty.
AcquireChoices ==
    IF \E c \in Clients : pool[c] > 0
    THEN {c \in Clients : pool[c] > 0}
    ELSE IF allocated = Clients THEN {}
    ELSE {CHOOSE c \in Clients : c \notin allocated}

\* clientPool.Put(c)
ReleaseClient(p, c) == [p EXCEPT ![c] = @ + 1]

\* Mutant: the release of the client is not deferred, only cancel() is.
DefersCancelOnly(j) ==
    /\ ctxErr' = [ctxErr EXCEPT ![j] = IF @ = "none" THEN "canceled" ELSE @]
    /\ pool' = pool

\* The deferred calls of PerformProxyJob, run at every return after line 109:
\* cancel(), then fiber.ReleaseClient(client).
Defers(j) ==
    /\ ctxErr' = [ctxErr EXCEPT ![j] = IF @ = "none" THEN "canceled" ELSE @]
    /\ pool' = ReleaseClient(pool, client[j])

\* The bookkeeping of a return that runs the deferred calls.
Returned(h) ==
    [h EXCEPT !.returns = @ + 1, !.releases = @ + 1, !.retAt = now]

(***************************************************************************)
(* PerformProxyJob.                                                        *)
(***************************************************************************)
\* Lines 87-93: the body does not parse.
ParseFail(j) ==
    /\ j \in admitted
    /\ hpc[j] = "idle"
    /\ hpc' = [hpc EXCEPT ![j] = "done"]
    /\ result' = [result EXCEPT ![j] = BadBodyResult]
    /\ hist' = [hist EXCEPT ![j].returns = @ + 1, ![j].retAt = now]
    /\ UNCHANGED <<now, admitted, world, pool, allocated, job, client, ctxErr, ctxAt,
                   ctxDur, chan, recv, req, wpc, callOut>>

\* Lines 87-109: parse the job, default the timeout, acquire the client,
\* create the context.
Parse(j) ==
    /\ j \in admitted
    /\ hpc[j] = "idle"
    /\ \E m \in world.methods, t \in world.timeouts, b \in world.contents,
          c \in AcquireChoices :
          LET d == TimeoutNs[EffectiveTimeout(t)]
          IN  /\ job' = [job EXCEPT ![j] =
                            [Method |-> m, Timeout |-> EffectiveTimeout(t),
                             Headers |-> b.Headers, Cookies |-> b.Cookies,
                             Body |-> b.Body]]
              /\ client' = [client EXCEPT ![j] = c]
              /\ pool' = [pool EXCEPT ![c] = IF @ > 0 THEN @ - 1 ELSE 0]
              /\ allocated' = allocated \cup {c}
              /\ ctxDur' = [ctxDur EXCEPT ![j] = d]
              /\ ctxAt' = [ctxAt EXCEPT ![j] = now]
              /\ ctxErr' = [ctxErr EXCEPT ![j] =
                               IF ExpiredAtCreation(d) THEN "deadline" ELSE "none"]
              /\ hist' = [hist EXCEPT ![j].supplied = t,
                                      ![j].acquires = @ + 1,
                                      ![j].order = IF ExpiredAtCreation(d)
                                                   THEN "fire" ELSE @]
    /\ hpc' = [hpc EXCEPT ![j] = "switch"]
    /\ UNCHANGED <<now, admitted, world, chan, recv, result, req, wpc, callOut>>

\* Lines 111-125, default case: the method is not allowed.
RejectMethod(j) ==
    /\ hpc[j] = "switch"
    /\ ~ValidMethod(job[j].Method)
    /\ hpc' = [hpc EXCEPT ![j] = "done"]
    /\ result' = [result EXCEPT ![j] = BadMethodResult]
    /\ Defers(j)
    /\ hist' = [hist EXCEPT ![j] = Returned(@)]
    /\ UNCHANGED <<now, admitted, world, allocated, job, client, ctxAt, ctxDur, chan,
                   recv, req, wpc, callOut>>

\* Mutant: the client is released as soon as the agent is built, and again by
\* the deferred call.
DispatchAndRelease(j) ==
    /\ hpc[j] = "switch"
    /\ ValidMethod(job[j].Method)
    /\ hpc' = [hpc EXCEPT ![j] = "select"]
    /\ req' = [req EXCEPT ![j] = NewAgent(job[j].Method)]
    /\ chan' = [chan EXCEPT ![j] = <<>>]
    /\ wpc' = [wpc EXCEPT ![j] = "start"]
    /\ pool' = ReleaseClient(pool, client[j])
    /\ hist' = [hist EXCEPT ![j].starts = @ + 1, ![j].releases = @ + 1]
    /\ UNCHANGED <<now, admitted, world, allocated, job, client, ctxErr, ctxAt,
                   ctxDur, recv, result, callOut>>

\* Lines 111-128: build the agent, make the channel, start the worker.
Dispatch(j) ==
    /\ hpc[j] = "switch"
    /\ ValidMethod(job[j].Method)
    /\ hpc' = [hpc EXCEPT ![j] = "select"]
    /\ req' = [req EXCEPT ![j] = NewAgent(job[j].Method)]
    /\ chan' = [chan EXCEPT ![j] = <<>>]
    /\ wpc' = [wpc EXCEPT ![j] = "start"]
    /\ hist' = [hist EXCEPT ![j].starts = @ + 1]
    /\ UNCHANGED <<now, admitted, world, pool, allocated, job, client, ctxErr, ctxAt,
                   ctxDur, recv, result, callOut>>

\* Line 131: the select finds ctx.Done() ready and takes it.  When the
\* channel is ready too, Go chooses either case.
SelectDone(j) ==
    /\ hpc[j] = "select"
    /\ ctxErr[j] # "none"
    /\ hpc' = [hpc EXCEPT ![j] = "caseDone"]
    /\ UNCHANGED <<now, admitted, world, pool, allocated, job, client, ctxErr, ctxAt,
                   ctxDur, chan, recv, result, req, wpc, callOut, hist>>

\* Line 137: the select finds a value in response_chan and takes it.
SelectRecv(j) ==
    /\ hpc[j] = "select"
    /\ chan[j] # <<>>
    /\ hpc' = [hpc EXCEPT ![j] = "caseResp"]
    /\ recv' = [recv EXCEPT ![j] = Head(chan[j])]
    /\ chan' = [chan EXCEPT ![j] = Tail(@)]
    /\ UNCHANGED <<now, admitted, world, pool, allocated, job, client, ctxErr, ctxAt,
                   ctxDur, result, req, wpc, callOut, hist>>

\* Line 130: no case is ready, the handler blocks in the select.
SelectPark(j) ==
    /\ hpc[j] = "select"
    /\ ctxErr[j] = "none"
    /\ chan[j] = <<>>
    /\ hpc' = [hpc EXCEPT ![j] = "parked"]
    /\ UNCHANGED <<now, admitted, world, pool, allocated, job, client, ctxErr, ctxAt,
                   ctxDur, chan, recv, result, req, wpc, callOut, hist>>

\* Mutant: the timeout case writes its response and falls back into the select
\* instead of returning.
ReturnTimeoutAgain(j) ==
    /\ hpc[j] = "caseDone"
    /\ hist[j].returns < 3
    /\ hpc' = [hpc EXCEPT ![j] = "select"]
    /\ result' = [result EXCEPT ![j] = TimeoutResult]
    /\ hist' = [hist EXCEPT ![j].returns = @ + 1, ![j].retAt = now]
    /\ UNCHANGED <<now, admitted, world, pool, allocated, job, client, ctxErr, ctxAt,
                   ctxDur, chan, recv, req, wpc, callOut>>

\* Lines 131-135: the timeout return.
ReturnTimeout(j) ==
    /\ hpc[j] = "caseDone"
    /\ hpc' = [hpc EXCEPT ![j] = "done"]
    /\ result' = [result EXCEPT ![j] = TimeoutResult]
    /\ Defers(j)
    /\ hist' = [hist EXCEPT ![j] = Returned(@)]
    /\ UNCHANGED <<now, admitted, world, allocated, job, client, ctxAt, ctxDur, chan,
                   recv, req, wpc, callOut>>

\* Lines 137-156: the return of the response case.
ReturnResponse(j) ==
    /\ hpc[j] = "caseResp"
    /\ hpc' = [hpc EXCEPT ![j] = "done"]
    /\ result' = [result EXCEPT ![j] = Reduce(recv[j])]
    /\ Defers(j)
    /\ hist' = [hist EXCEPT ![j] = Returned(@)]
    /\ UNCHANGED <<now, admitted, world, allocated, job, client, ctxAt, ctxDur, chan,
                   recv, req, wpc, callOut>>

(***************************************************************************)
(* PerformRequest, the worker goroutine.                                   *)
(***************************************************************************)
\* Lines 44-55: apply the job's headers, cookies and body to the request.
BuildRequest(j) ==
    /\ wpc[j] = "start"
    /\ wpc' = [wpc EXCEPT ![j] = "built"]
    /\ req' = [req EXCEPT ![j] = ApplyJob(@, job[j])]
    /\ UNCHANGED <<now, admitted, world, pool, allocated, handlerVars, chan, callOut,
                   hist>>

\* Lines 57-58: the worker enters agent.Bytes(), the outbound call.
Call(j) ==
    /\ wpc[j] = "built"
    /\ wpc' = [wpc EXCEPT ![j] = "call"]
    /\ hist' = [hist EXCEPT ![j].calls = @ + 1]
    /\ UNCHANGED <<now, admitted, world, pool, allocated, handlerVars, chan, req,
                   callOut>>

\* Mutant: a call that failed is made again, up to three times.
CallReturnsRetry(j) ==
    /\ wpc[j] = "call"
    /\ \E out \in world.outcomes :
          /\ callOut' = [callOut EXCEPT ![j] = out]
          /\ wpc' = [wpc EXCEPT ![j] = IF Len(out.Errs) > 0 /\ hist[j].calls < 3
                                       THEN "built" ELSE "send"]
    /\ UNCHANGED <<now, admitted, world, pool, allocated, handlerVars, chan, req, hist>>

\* Line 58: agent.Bytes() returns.  It need not: the call can hang for ever.
CallReturns(j) ==
    /\ wpc[j] = "call"
    /\ \E out \in world.outcomes : callOut' = [callOut EXCEPT ![j] = out]
    /\ wpc' = [wpc EXCEPT ![j] = "send"]
    /\ UNCHANGED <<now, admitted, world, pool, allocated, handlerVars, chan, req, hist>>

\* Mutant: response_chan is one package-level channel, that of the first job.
ChanOfShared(j) == "j1"

\* The channel the worker of j sends on: the one its own handler made at line
\* 127 and passed to it at line 128.  Channels are named by their handler.
ChanOf(j) == j

\* Mutant: response_chan is unbuffered, a send needs a waiting receiver.
CanSendUnbuffered(j) == hpc[ChanOf(j)] = "parked"

\* A send on response_chan can proceed: a receiver waits, or the buffer has room.
CanSend(j) == hpc[ChanOf(j)] = "parked" \/ Len(chan[ChanOf(j)]) < ChanCap

\* Lines 60-76: send the response.  A handler blocked in the select receives
\* the value directly and takes the response case; otherwise it is buffered.
Send(j) ==
    /\ wpc[j] = "send"
    /\ CanSend(j)
    /\ IF hpc[ChanOf(j)] = "parked"
       THEN /\ recv' = [recv EXCEPT ![ChanOf(j)] = WorkerResponse(callOut[j])]
            /\ hpc' = [hpc EXCEPT ![ChanOf(j)] = "caseResp"]
            /\ chan' = chan
       ELSE /\ chan' = [chan EXCEPT ![ChanOf(j)] = Append(@, WorkerResponse(callOut[j]))]
            /\ UNCHANGED <<recv, hpc>>
    /\ wpc' = [wpc EXCEPT ![j] = "done"]
    /\ hist' = [hist EXCEPT ![j].sends = @ + 1,
                            ![j].order = IF @ = "none" /\ hpc[j] # "done"
                                         THEN "send" ELSE @,
                            ![j].late = hpc[j] = "done",
                            ![j].inTime = ctxErr[j] = "none"
                                          /\ ~TimerDue(ctxAt[j], ctxDur[j], now)]
    /\ UNCHANGED <<now, admitted, world, pool, allocated, job, client, ctxErr, ctxAt,
                   ctxDur, result, req, callOut>>

(***************************************************************************)
(* The deadline timer and the clock.                                       *)
(***************************************************************************)
\* The timer of ctx fires: ctx.Done() is closed.  A handler blocked in the
\* select takes the timeout case.
TimerFire(j) ==
    /\ ctxErr[j] = "none"
    /\ TimerDue(ctxAt[j], ctxDur[j], now)
    /\ ctxErr' = [ctxErr EXCEPT ![j] = "deadline"]
    /\ hpc' = [hpc EXCEPT ![j] = IF @ = "parked" THEN "caseDone" ELSE @]
    /\ hist' = [hist EXCEPT ![j].order = IF @ = "none" THEN "fire" ELSE @,
                            ![j].midCall = wpc[j] = "call"]
    /\ UNCHANGED <<now, admitted, world, pool, allocated, job, client, ctxAt, ctxDur,
                   chan, recv, result, req, wpc, callOut>>

\* Time passes, up to the horizon of the run.  Only a running handler observes
\* the clock, so the clock is kept still while no handler is between its parse
\* and its return.
Tick ==
    /\ \E j \in Jobs : hpc[j] \notin {"idle", "done"}
    /\ now < world.horizon
    /\ now' = IF now + TickSeconds > world.horizon THEN world.horizon
              ELSE now + TickSeconds
    /\ UNCHANGED <<admitted, world, pool, allocated, handlerVars, chan, workerVars, hist>>

Next ==
    \/ Tick
    \/ \E j \in Jobs :
          \/ ParseFail(j)
          \/ Parse(j)
          \/ RejectMethod(j)
          \/ Dispatch(j)
          \/ SelectDone(j)
          \/ SelectRecv(j)
          \/ SelectPark(j)
          \/ ReturnTimeout(j)
          \/ ReturnResponse(j)
          \/ BuildRequest(j)
          \/ Call(j)
          \/ CallReturns(j)
          \/ Send(j)
          \/ TimerFire(j)

Spec == Init /\ [][Next]_vars

SpecBuild == InitBuild /\ [][Next]_vars

SpecPair == InitPair /\ [][Next]_vars

\* The handler's own steps: it runs whenever it can.
HandlerStep(j) ==
    \/ ParseFail(j)
    \/ Parse(j)
    \/ RejectMethod(j)
    \/ Dispatch(j)
    \/ SelectDone(j)
    \/ SelectRecv(j)
    \/ SelectPark(j)
    \/ ReturnTimeout(j)
    \/ ReturnResponse(j)

\* Goroutines that can run do run, a due timer fires and time passes.  The
\* outbound call alone is under no obligation to return.
FairSpec ==
    /\ InitFair
    /\ [][Next]_vars
    /\ WF_vars(Tick)
    /\ \A j \in Jobs :
          /\ WF_vars(HandlerStep(j))
          /\ WF_vars(TimerFire(j))
          /\ WF_vars(BuildRequest(j))
          /\ WF_vars(Call(j))
          /\ WF_vars(Send(j))

(***************************************************************************)
(* Vocabulary of the properties.                                           *)
(***************************************************************************)
AllowedMethods == {"GET", "POST", "PUT", "DELETE"}

\* The handler of j has parsed a job (and has acquired its client).
IsJob(j) == hist[j].acquires = 1

IsValidJob(j) == IsJob(j) /\ job[j].Method \in AllowedMethods

HasReturned(j) == hpc[j] = "done"

CompletedResult(status, body) ==
    [code |-> status, json |-> [status_code |-> status, body |-> body, errs |-> <<>>]]

FailureResult(errs) ==
    [code |-> 502, json |-> [errs |-> errs \o <<"request timed out">>]]

IsCompleted(r) == \E st \in Statuses, b \in Bodies : r = CompletedResult(st, b)

IsFailure(r) == \E e \in ErrLists : e # <<>> /\ r = FailureResult(e)

IsTimedOut(r) == r = TimeoutResult

IsValidation(r) == r = BadMethodResult

\* The return statement the handler of a returned job took, read off what it
\* holds: no job parsed, no valid method, nothing received, errors received,
\* or a response received.
ReturnPath(j) ==
    IF ~IsJob(j) THEN "BadBody"
    ELSE IF job[j].Method \notin AllowedMethods THEN "Validation"
    ELSE IF recv[j] = NoResponse THEN "TimedOut"
    ELSE IF recv[j].Errs # <<>> THEN "TransportFailure"
    ELSE "Completed"

\* The kind of the result the handler returns when it receives the outcome out.
KindOfOutcome(out) == IF out.Errs # <<>> THEN "TransportFailure" ELSE "Completed"

KindsOf(r) ==
    {k \in {"Completed", "TransportFailure", "TimedOut", "Validation"} :
        \/ k = "Completed" /\ IsCompleted(r)
        \/ k = "TransportFailure" /\ IsFailure(r)
        \/ k = "TimedOut" /\ IsTimedOut(r)
        \/ k = "Validation" /\ IsValidation(r)}

(***************************************************************************)
(* Properties.                                                             *)
(***************************************************************************)
\* C1: a job whose method is not GET, POST, PUT or DELETE is answered with the
\* validation result and nothing else happens for it: no worker is started,
\* no outbound call is made and nothing is sent on its response channel.
C1_InvalidMethodNoAttempt ==
    \A j \in Jobs :
        (IsJob(j) /\ job[j].Method \notin AllowedMethods) =>
            /\ hpc[j] \in {"switch", "done"}
            /\ HasReturned(j) => result[j] = BadMethodResult
            /\ wpc[j] = "none"
            /\ hist[j].starts = 0
            /\ hist[j].calls = 0
            /\ hist[j].sends = 0
            /\ chan[j] = <<>>

\* A PATCH job has been rejected.
C1_Witness ==
    \E j \in Jobs :
        /\ HasReturned(j)
        /\ job[j].Method = "PATCH"
        /\ result[j] = BadMethodResult
        /\ wpc[j] = "none"

\* C2: when the call of a valid job returns no error and the worker has sent
\* its outcome before the deadline (before the deadline instant on the clock,
\* and before ctx expired), the handler returns the Completed result with
\* exactly the status and the body of the call.
C2_CompletedBeforeDeadline ==
    \A j \in Jobs :
        (IsValidJob(j) /\ HasReturned(j) /\ hist[j].order = "send"
            /\ hist[j].inTime /\ callOut[j].Errs = <<>>) =>
            result[j] = CompletedResult(callOut[j].StatusCode, callOut[j].Body)

\* C3: when the deadline of a valid job expires before its worker has sent an
\* outcome, the handler returns the timeout result, whatever the worker sends
\* afterwards.
C3_TimedOutWhenDeadlineFirst ==
    \A j \in Jobs :
        (IsValidJob(j) /\ HasReturned(j) /\ hist[j].order = "fire") =>
            result[j] = TimeoutResult

\* C4: when the call of a valid job returns errors and the worker has sent its
\* outcome before the deadline (before the deadline instant on the clock, and
\* before ctx expired), the handler returns the transport failure: the call's
\* errors in order, followed by one synthetic marker.
C4_FailureBeforeDeadline ==
    \A j \in Jobs :
        (IsValidJob(j) /\ HasReturned(j) /\ hist[j].order = "send"
            /\ hist[j].inTime /\ callOut[j].Errs # <<>>) =>
            result[j] = FailureResult(callOut[j].Errs)

\* C5: every job yields one terminal result: the handler returns at most
\* once, what it returned is exactly one of Completed, TransportFailure,
\* TimedOut and the validation error, and nothing that happens after the
\* return (a late send, a later expiry) changes the result or adds a return.
C5_SingleTerminalResult ==
    /\ [](\A j \in Jobs :
            /\ hist[j].returns <= 1
            /\ HasReturned(j) <=> hist[j].returns = 1
            /\ ~HasReturned(j) => result[j] = NoResult
            /\ (IsJob(j) /\ HasReturned(j)) => Cardinality(KindsOf(result[j])) = 1)
    /\ [][\A j \in Jobs :
            HasReturned(j) =>
                /\ result'[j] = result[j]
                /\ hist'[j].returns = hist[j].returns
                /\ hpc'[j] = hpc[j]]_vars

\* The worker sends after the handler has returned on timeout.
C5_Witness ==
    \E j \in Jobs :
        /\ IsTimedOut(result[j])
        /\ hist[j].returns = 1
        /\ hist[j].sends = 1
        /\ hist[j].late
        /\ chan[j] # <<>>

C7_WorkerNeverBlocked ==
    \A j \in Jobs :
        /\ hist[j].sends <= 1
        /\ wpc[j] = "done" => hist[j].sends = 1
        /\ wpc[j] \in {"none", "start", "built", "call", "send"} => hist[j].sends = 0
        /\ Len(chan[j]) <= 1
        /\ wpc[j] = "send" => ENABLED Send(j)

\* A worker that sent a transport failure after the timeout return has finished.
C7_Witness ==
    \E j \in Jobs :
        /\ IsTimedOut(result[j])
        /\ HasReturned(j)
        /\ hist[j].late
        /\ wpc[j] = "done"
        /\ Len(chan[j]) = 1
        /\ Head(chan[j]).Errs # <<>>

\* C8: the handler returns the timeout result only if the deadline expired
\* before the worker sent its outcome, and it returns a Completed or a
\* transport failure result only if the worker's send came first.
C8_FirstToResolveWins ==
    \A j \in Jobs :
        (IsValidJob(j) /\ HasReturned(j)) =>
            /\ IsTimedOut(result[j]) => hist[j].order = "fire"
            /\ (IsCompleted(result[j]) \/ IsFailure(result[j])) => hist[j].order = "send"

\* C9: the client a job acquired is released exactly once on every return that
\* follows the acquisition: while the handler runs the client is out of the
\* pool, and once it has returned the client is in the pool once.
C9_ClientReleasedOnce ==
    \A j \in Jobs :
        /\ hist[j].releases <= hist[j].acquires
        /\ hist[j].acquires <= 1
        /\ (IsJob(j) /\ ~HasReturned(j)) =>
              hist[j].releases = 0 /\ pool[client[j]] = 0
        /\ (IsJob(j) /\ HasReturned(j)) =>
              hist[j].releases = 1 /\ pool[client[j]] = 1
        /\ ~IsJob(j) => client[j] = NoClient

\* The timeout return has put the client back while the call is in flight.
C9_Witness ==
    \E j \in Jobs :
        /\ HasReturned(j)
        /\ IsTimedOut(result[j])
        /\ wpc[j] = "call"
        /\ pool[client[j]] = 1

\* C10: the effective timeout is 30 when the supplied timeout is zero and the
\* supplied value otherwise, and the timeout result is never returned before
\* 30 times the effective timeout, in seconds, has passed since the deadline
\* was computed.
C10_DeadlineIsThirtyTimesTimeout ==
    \A j \in Jobs :
        IsJob(j) =>
            /\ job[j].Timeout = (IF hist[j].supplied = 0 THEN 30 ELSE hist[j].supplied)
            /\ (HasReturned(j) /\ IsTimedOut(result[j])) =>
                  (hist[j].retAt - ctxAt[j]) \div 30 >= job[j].Timeout

\* C11: jobs share no state.  Whatever the other job does, the values in a
\* job's channel and the value its handler received are the outcome of its own
\* worker's call; what it returned is the timeout result after its own context
\* expired or the reduction of its own call's outcome; its client is not the
\* client of another running job; and its outbound request carries the
\* headers, cookies and body of its own job only.
C11_JobsShareNoState ==
    \A j \in Jobs :
        /\ \A i \in 1..Len(chan[j]) :
              hist[j].sends = 1 /\ chan[j][i] = WorkerResponse(callOut[j])
        /\ recv[j] # NoResponse =>
              hist[j].sends = 1 /\ recv[j] = WorkerResponse(callOut[j])
        /\ (IsValidJob(j) /\ HasReturned(j)) =>
              \/ result[j] = TimeoutResult /\ ctxErr[j] = "deadline"
              \/ result[j] = Reduce(WorkerResponse(callOut[j])) /\ hist[j].sends = 1
        /\ (IsJob(j) /\ ~ValidMethod(job[j].Method) /\ HasReturned(j)) =>
              result[j] = BadMethodResult
        /\ \A k \in Jobs \ {j} :
              (IsJob(j) /\ ~HasReturned(j) /\ IsJob(k) /\ ~HasReturned(k)) =>
                  client[j] # client[k]
        /\ wpc[j] \in {"built", "call", "send", "done"} =>
              req[j] = ApplyJob(NewAgent(job[j].Method), job[j])

\* Two jobs that carried different headers, cookies and bodies ran at the same
\* time on different clients; one completed and the other failed.
C11_Witness ==
    \E j \in Jobs, k \in Jobs :
        /\ j # k
        /\ HasReturned(j) /\ HasReturned(k)
        /\ client[j] # client[k]
        /\ job[j].Body # job[k].Body
        /\ req[j].Headers # req[k].Headers
        /\ IsCompleted(result[j])
        /\ IsFailure(result[k])
        /\ wpc[j] = "done" /\ wpc[k] = "done"

\* C12: in the result returned for a job exactly one of Completed,
\* TransportFailure and TimedOut holds, and the result has a status code and a
\* body exactly when it is Completed: a Completed result has both (those of
\* the call), the timeout and the transport-failure result have neither.
C12_StatusAndBodyIffCompleted ==
    \A j \in Jobs :
        (IsValidJob(j) /\ HasReturned(j)) =>
            /\ Cardinality(KindsOf(result[j]) \ {"Validation"}) = 1
            /\ ~IsValidation(result[j])
            /\ IsCompleted(result[j]) <=>
                  {"status_code", "body"} \subseteq DOMAIN result[j].json
            /\ ~IsCompleted(result[j]) =>
                  {"status_code", "body"} \cap DOMAIN result[j].json = {}
            /\ IsCompleted(result[j]) =>
                  /\ result[j].json.status_code = callOut[j].StatusCode
                  /\ result[j].json.body = callOut[j].Body
                  /\ result[j].json.body # NilBody

\* A transport failure has been returned for a call that failed with two errors.
C12_Witness ==
    \E j \in Jobs :
        /\ IsValidJob(j)
        /\ HasReturned(j)
        /\ IsFailure(result[j])
        /\ Len(callOut[j].Errs) = 2
        /\ DOMAIN result[j].json = {"errs"}

\* C13: a job that passes the method validation causes exactly one outbound
\* call: one worker is started for it at dispatch and no other, the worker
\* enters the call once it has built the request and never a second time,
\* whatever the call returns and whether or not the deadline has expired, and
\* the call is eventually made.
C13_ExactlyOneOutboundCall ==
    /\ [](\A j \in Jobs :
            /\ hist[j].starts <= 1
            /\ hist[j].calls <= 1
            /\ hist[j].starts = 1 <=> wpc[j] # "none"
            /\ (IsValidJob(j) /\ hpc[j] # "switch") => hist[j].starts = 1
            /\ wpc[j] \in {"call", "send", "done"} <=> hist[j].calls = 1)
    /\ \A j \in Jobs : IsValidJob(j) ~> hist[j].calls = 1

\* A call that failed was reported after the deadline had expired as well; it
\* was made once.
C13_Witness ==
    \E j \in Jobs :
        /\ HasReturned(j)
        /\ IsFailure(result[j])
        /\ ctxErr[j] = "deadline"
        /\ wpc[j] = "done"
        /\ hist[j].starts = 1
        /\ hist[j].calls = 1

\* C14: the deadline is a soft cancellation.  When the deadline has fired
\* while the call was in flight, the worker goes on: the call can still return
\* and the worker can still send its outcome; and that outcome is late: the
\* handler never receives it and the caller gets the timeout result.
C14_SoftCancellation ==
    \A j \in Jobs :
        hist[j].midCall =>
            /\ wpc[j] \in {"call", "send", "done"}
            /\ wpc[j] = "call" => ENABLED CallReturns(j)
            /\ wpc[j] = "send" => ENABLED Send(j)
            /\ recv[j] = NoResponse
            /\ HasReturned(j) => result[j] = TimeoutResult

\* C15: the results of the different returns are pairwise different, for every
\* origin status (400, 408 and 502 included), body and error list: a returned
\* result has the shape of the kind of the return that produced it and of no
\* other kind, and it differs from what the handler would have returned for
\* any call outcome of another kind.
C15_KindsAreDistinguishable ==
    \A j \in Jobs :
        HasReturned(j) =>
            /\ ReturnPath(j) = "BadBody" =>
                  result[j] = BadBodyResult /\ KindsOf(result[j]) = {}
            /\ ReturnPath(j) # "BadBody" => KindsOf(result[j]) = {ReturnPath(j)}
            /\ result[j] # BadBodyResult => ReturnPath(j) # "BadBody"
            /\ \A out \in world.outcomes :
                  KindOfOutcome(out) # ReturnPath(j) =>
                      Reduce(WorkerResponse(out)) # result[j]
            /\ ReturnPath(j) # "TimedOut" => result[j] # TimeoutResult
            /\ ReturnPath(j) # "Validation" => result[j] # BadMethodResult

\* A call that the origin answered with 408 has been returned as Completed.
C15_Witness ==
    \E j \in Jobs :
        /\ HasReturned(j)
        /\ ReturnPath(j) = "Completed"
        /\ result[j].code = 408
        /\ result[j] # TimeoutResult

\* C16: the request the worker has built carries every header pair and every
\* cookie pair of its job and no other, a body is attached exactly when the
\* job's body is not empty (and it is the job's body), and no outbound call is
\* made while the request is being built.
C16_RequestCarriesTheJob ==
    \A j \in Jobs :
        /\ wpc[j] \in {"start", "built"} => hist[j].calls = 0
        /\ wpc[j] \in {"built", "call", "send", "done"} =>
              /\ req[j].Method = job[j].Method
              /\ DOMAIN req[j].Headers = DOMAIN job[j].Headers
              /\ \A k \in DOMAIN job[j].Headers : req[j].Headers[k] = job[j].Headers[k]
              /\ DOMAIN req[j].Cookies = DOMAIN job[j].Cookies
              /\ \A k \in DOMAIN job[j].Cookies : req[j].Cookies[k] = job[j].Cookies[k]
              /\ req[j].HasBody <=> job[j].Body # ""
              /\ req[j].HasBody => req[j].Body = job[j].Body

\* A request with two headers, a cookie and no body is built and not yet sent.
C16_Witness ==
    \E j \in Jobs :
        /\ wpc[j] = "built"
        /\ hist[j].calls = 0
        /\ Cardinality(DOMAIN req[j].Headers) = 2
        /\ DOMAIN req[j].Cookies # {}
        /\ job[j].Body = ""
        /\ ~req[j].HasBody

\* C17: whatever integer timeout the caller supplies, a job that is dispatched
\* has a strictly positive effective timeout, and at the moment its worker is
\* started its deadline lies strictly in the future: the context did not
\* expire when it was created and its timer is not yet due.
C17_PositiveTimeoutAtDispatch ==
    [][\A j \in Jobs :
          hist'[j].starts > hist[j].starts =>
              /\ job[j].Timeout > 0
              /\ ~ExpiredAtCreation(ctxDur[j])
              /\ ~TimerDue(ctxAt[j], ctxDur[j], now)]_vars

\* C18, as claimed: when the client of a job has been released, the job's
\* worker is no longer using the agent: it is not building the request and its
\* outbound call is not in flight.
C18_NoReleaseWhileInFlight ==
    \A j \in Jobs :
        hist[j].releases >= 1 => wpc[j] \notin {"start", "built", "call"}

\* C18, amended: the client of a job is released at the return of its handler
\* and not before; the worker can still be using the agent then (building the
\* request, or with the call in flight) only if the return is the timeout
\* return, and after a Completed or a transport-failure return the worker has
\* finished.
C18_ReleasedAtReturn ==
    \A j \in Jobs :
        /\ hist[j].releases >= 1 <=> (IsJob(j) /\ HasReturned(j))
        /\ (hist[j].releases >= 1 /\ wpc[j] \in {"start", "built", "call", "send"}) =>
              result[j] = TimeoutResult /\ ctxErr[j] = "deadline"
        /\ (HasReturned(j) /\ (IsCompleted(result[j]) \/ IsFailure(result[j]))) =>
              wpc[j] = "done" /\ hist[j].calls = 1

\* The client is back in the pool and the worker has not yet made its call.
C18_Witness ==
    \E j \in Jobs :
        /\ hist[j].releases = 1
        /\ pool[client[j]] = 1
        /\ wpc[j] = "built"
        /\ result[j] = TimeoutResult

====
